---- MODULE Spec2Model ----
(***************************************************************************)
(* scripts/generate_and_deploy.py: the OpenAI blog generator of iberrywifi. *)
(* The script checks the credential, creates generated/, runs one          *)
(* generation per topic through call_openai_with_retries, writes the       *)
(* successful outputs to generated/ and finally writes sitemap.xml.        *)
(*                                                                         *)
(* Strings whose characters the code inspects (topics, file names, the     *)
(* response content) are sequences of one-character strings; strings the   *)
(* code only copies are single tokens.                                     *)
(***************************************************************************)
EXTENDS Integers, Sequences, FiniteSets, TLC

\* ------------------------------------------------------------------ bounds
\* Longest task list explored (the script's own list has three topics).
MaxTasks == 3
\* Largest retry budget explored for the max_retries parameter.
MaxRetries == 2
\* Ticks per second in which delays are measured: the jitter of one backoff
\* is one of 0, 1/Ticks, ..., (Ticks - 1)/Ticks seconds.
Ticks == 2

\* -------------------------------------------------------- program constants
SITE_BASE == "https://iberrywifi.com"
MARKER == "<!-- Auto-generated blog -->\n"
SUFFIX == <<".", "h", "t", "m", "l">>

\* def call_openai_with_retries(..., max_retries=5)
DEFAULT_MAX_RETRIES == 5

\* status in (429, 500, 502, 503, 504)
RETRYABLE == {429, 500, 502, 503, 504}

\* The statuses for which raise_for_status() raises that the model explores:
\* two inside the tuple and two outside it (one 4xx, one 5xx).
HTTP_ERROR_STATUSES == {400, 429, 501, 503}

\* Retry budgets handed to call_openai_with_retries.
RetryBudgets == 0..MaxRetries

\* Topics of the task lists explored.  The first two derive the same file
\* name; the last is the script's third topic, abridged.
TopicPool ==
    { <<"W", "i", " ", "F", "i">>,
      <<"w", "i", "-", "-", "f", "i", "!">>,
      <<"T", "o", "p", " ", "5", " ", "t", "i", "p", "s">> }

\* Response contents (choices[0].message.content) before .strip().
RawContents == { <<"A">>, <<" ", "B", "\n">> }

\* What generated/ may hold from an earlier run when the script starts.
StaleDirs ==
    { << >>,
      [n \in { <<"w", "i", "-", "f", "i">> \o SUFFIX } |-> <<"stale">>] }

\* ------------------------------------------------------------ pure helpers
UPPER == <<"A","B","C","D","E","F","G","H","I","J","K","L","M",
           "N","O","P","Q","R","S","T","U","V","W","X","Y","Z">>
LOWER == <<"a","b","c","d","e","f","g","h","i","j","k","l","m",
           "n","o","p","q","r","s","t","u","v","w","x","y","z">>
DIGITS == {"0","1","2","3","4","5","6","7","8","9"}
WHITESPACE == {" ", "\n", "\t", "\r"}

Range(s) == { s[k] : k \in DOMAIN s }

\* str.lower() on one character
LowerChar(c) ==
    IF \E k \in DOMAIN UPPER : UPPER[k] = c
    THEN LOWER[CHOOSE k \in DOMAIN UPPER : UPPER[k] = c]
    ELSE c

\* t.lower()
Lower(s) == [k \in DOMAIN s |-> LowerChar(s[k])]

\* the character class [a-z0-9]
IsAlnum(c) == c \in Range(LOWER) \cup DIGITS

RECURSIVE SkipOther(_)
\* the rest of s after a leading run of characters outside [a-z0-9]
SkipOther(s) ==
    IF s = << >> \/ IsAlnum(Head(s)) THEN s ELSE SkipOther(Tail(s))

RECURSIVE SubDash(_)
\* re.sub(r'[^a-z0-9]+', '-', s)
SubDash(s) ==
    IF s = << >> THEN << >>
    ELSE IF IsAlnum(Head(s)) THEN <<Head(s)>> \o SubDash(Tail(s))
    ELSE <<"-">> \o SubDash(SkipOther(s))

RECURSIVE LStrip(_, _)
LStrip(s, chars) ==
    IF s # << >> /\ Head(s) \in chars THEN LStrip(Tail(s), chars) ELSE s

RECURSIVE RStrip(_, _)
RStrip(s, chars) ==
    IF s # << >> /\ s[Len(s)] \in chars
    THEN RStrip(SubSeq(s, 1, Len(s) - 1), chars) ELSE s

\* s.strip(chars)
Strip(s, chars) == RStrip(LStrip(s, chars), chars)

\* fname = re.sub(r'[^a-z0-9]+', '-', t.lower()).strip('-') + ".html"
Fname(t) == Strip(SubDash(Lower(t)), {"-"}) \o SUFFIX

\* fname for each topic of the pool
FnameOf == [t \in TopicPool |-> Fname(t)]

\* f"{SITE_BASE}/{fn}"
Url(fn) == <<SITE_BASE, "/">> \o fn

\* f"{SITE_BASE}/"
RootUrl == <<SITE_BASE, "/">>

\* ------------------------------------------------------------------ state
VARIABLES
    OPENAI_KEY,      \* TRUE iff os.environ holds a non-empty OPENAI_API_KEY
    max_retries,     \* the max_retries argument of call_openai_with_retries
    topics,          \* the task list
    json_error_is_request_exception,
                     \* TRUE iff the installed requests raises
                     \* requests.exceptions.JSONDecodeError (a RequestException)
                     \* from r.json(); FALSE iff it raises a plain ValueError
    pc,              \* position of the script
    i,               \* number of topics the for loop has taken so far
    attempt,         \* call_openai_with_retries: attempt
    backoff,         \* argument of the pending time.sleep(backoff), in ticks;
                     \* 0 while the executor is not about to sleep
    retried,         \* except clauses ("http", "request") that have retried
                     \* in the running invocation; {} when none is running
    html,            \* the module-level name html
    created_files,   \* the module-level list created_files
    files,           \* generated/: file name -> content
    files0,          \* generated/ as it was when the script started
    sitemap,         \* <loc> values of sitemap.xml; << >> while not written
    exit_status,     \* exit status of the process once it has ended
    calls,           \* requests.post calls of the current/last invocation
    sleeps,          \* backoff sleeps of the current/last invocation
    last,            \* outcome of the latest requests.post of that invocation
                     \* (the three are cleared when the task loop is left)
    result,          \* per finished invocation: "ok", "exhausted" or "fatal"
    paused,          \* tasks (by position) followed by time.sleep(2)
    persisted,       \* tasks (by position) whose with-block completed
    written          \* names of the files whose with-block completed

vars == <<OPENAI_KEY, max_retries, topics, json_error_is_request_exception,
          pc, i, attempt, backoff, retried, html, created_files, files,
          files0, sitemap, exit_status, calls, sleeps, last, result, paused, persisted,
          written>>

\* the locals of call_openai_with_retries and what is recorded of their use
executor == <<attempt, backoff, retried>>

\* variables of the environment, fixed when the process starts
env == <<OPENAI_KEY, max_retries, topics, json_error_is_request_exception,
         files0>>

NoCall == [kind |-> "none", status |-> 0]

RECURSIVE TaskLists(_)
\* every list of at most n topics
TaskLists(n) ==
    IF n = 0 THEN { << >> }
    ELSE LET shorter == TaskLists(n - 1)
         IN shorter \cup { Append(l, t) : l \in { s \in shorter : Len(s) = n - 1 },
                                          t \in TopicPool }

Init ==
    /\ OPENAI_KEY \in BOOLEAN
    /\ max_retries \in RetryBudgets
    /\ topics \in TaskLists(MaxTasks)
    /\ json_error_is_request_exception \in BOOLEAN
    /\ files0 \in StaleDirs
    /\ files = files0
    /\ pc = "start"
    /\ i = 0
    /\ attempt = 0
    /\ backoff = 0
    /\ retried = {}
    /\ html = << >>
    /\ created_files = << >>
    /\ sitemap = << >>
    /\ exit_status = 0
    /\ calls = 0
    /\ sleeps = 0
    /\ last = NoCall
    /\ result = << >>
    /\ paused = {}
    /\ persisted = {}
    /\ written = {}

\* ------------------------------------------------------- pieces of the code
\* the check left out: the script runs on without a credential
KeyMissingNever(key) == FALSE

\* if not OPENAI_KEY:
KeyMissing(key) == ~key

\* one more turn of the loop: while attempt <= max_retries
WhileCondInclusive(a, m) == a <= m

\* while attempt < max_retries:
WhileCond(a, m) == a < m

\* every 5xx taken for retryable, as the docstring's "429/5xx" reads
IsRetryableAny5xx(status) == status = 429 \/ status >= 500

\* if status in (429, 500, 502, 503, 504):
IsRetryable(status) == status \in RETRYABLE

\* break for continue: the first failed topic ends the loop
ExceptTargetBreak == "sitemap"

\* continue left out: the handler falls through to the artifact writer
ExceptTargetFallThrough == "write"

\* except Exception as e: print(...); continue   -- where the loop goes next
ExceptTarget == "for"

\* the file opened with mode "a"
WriteFileAppending(old, chunks) == old \o chunks

\* open(path, "w") followed by the two f.write calls: the content the file
\* has when the with-block completes, given the content it had (<< >> for a
\* file that did not exist)
WriteFile(old, chunks) == chunks

\* created_files.insert(0, fname)
AppendCreatedInFront(cf, fn) == <<fn>> \o cf

\* created_files.append(fname)
AppendCreated(cf, fn) == Append(cf, fn)

\* the list comprehension over created_files[1:]
UrlsSkippingFirst(cf) ==
    <<RootUrl>> \o [k \in 1..(Len(cf) - 1) |-> Url(cf[k + 1])]

\* urls = [f"{SITE_BASE}/"] + [f"{SITE_BASE}/{fn}" for fn in created_files]
Urls(cf) == <<RootUrl>> \o [k \in DOMAIN cf |-> Url(cf[k])]

\* content of generated/<name>, << >> when there is no such file
Content(dir, name) == IF name \in DOMAIN dir THEN dir[name] ELSE << >>

\* dir with generated/<name> holding content
WithFile(dir, name, content) ==
    [n \in DOMAIN dir \cup {name} |-> IF n = name THEN content ELSE dir[n]]

\* random.uniform(0, 1), in ticks
Jitter == 0..(Ticks - 1)

\* the exponent taken before attempt += 1
DelayOfOldAttempt(a, jitter) == (2 ^ (a - 1)) * Ticks + jitter

\* a counter of its own for the second except clause
NextAttemptOwnCounter(a, clause) == IF clause = "request" THEN a ELSE a + 1

\* attempt += 1, the same statement in both except clauses
NextAttempt(a, clause) == a + 1

\* a fixed base in place of the power
DelayFixedBase(a, jitter) == 2 * Ticks + jitter

\* backoff = (2 ** attempt) + random.uniform(0, 1), in ticks
Delay(a, jitter) == (2 ^ a) * Ticks + jitter

\* the counter kept across invocations (a module-level attempt)
FirstAttemptKept(a) == a

\* attempt = 0 on entry to call_openai_with_retries
FirstAttempt(a) == 0

\* the last topic left out: range(len(topics) - 1)
MoreTopicsButLast(n, ts) == n < Len(ts) - 1

\* for t in topics: a topic is left to take
MoreTopics(n, ts) == n < Len(ts)

\* the return left out: the loop goes round again after a success
ReturnTargetLoop == "while"

\* the statements after the try left out: on to the next topic at once
ReturnTargetNextTopic == "for"

\* return data[...].strip(): control is back in the task loop at line 102
ReturnTarget == "write"

\* The exception left call_openai_with_retries and generate_blog and was
\* caught by the task loop: the invocation is over with outcome kind.
Caught(kind) ==
    /\ result' = Append(result, kind)
    /\ retried' = {}
    /\ pc' = ExceptTarget

\* attempt += 1; backoff = (2 ** attempt) + random.uniform(0, 1); print(...);
\* time.sleep(backoff) is next.  clause is the except clause that runs.
Retry(clause) ==
    /\ attempt' = NextAttempt(attempt, clause)
    /\ \E jitter \in Jitter : backoff' = Delay(attempt', jitter)
    /\ retried' = retried \cup {clause}
    /\ pc' = "backoff"
    /\ UNCHANGED result

\* no retry: the counter stays as it is and no sleep is pending
NoRetry == UNCHANGED <<attempt, backoff>>

\* ---------------------------------------------------------------- actions
\* what only the artifact writer and the manifest builder touch
disk == <<html, created_files, files, sitemap, persisted, written>>

\* lines 14-20: the credential check
CheckKey ==
    /\ pc = "start"
    /\ IF KeyMissing(OPENAI_KEY)
       THEN pc' = "exit" /\ exit_status' = 1       \* sys.exit(1)
       ELSE pc' = "makedirs" /\ UNCHANGED exit_status
    /\ UNCHANGED <<env, i, executor, calls, sleeps, last, result, paused, disk>>

\* line 72: os.makedirs(OUT_DIR, exist_ok=True)
MakeDirs ==
    /\ pc = "makedirs"
    /\ pc' = "for"
    /\ UNCHANGED <<env, i, executor, exit_status, calls, sleeps, last, result,
                   paused, disk>>

\* lines 95-98, 80-92, 30-31: the loop takes the next topic and enters
\* generate_blog and call_openai_with_retries, where attempt = 0
ForNext ==
    /\ pc = "for"
    /\ MoreTopics(i, topics)
    /\ i' = i + 1
    /\ attempt' = FirstAttempt(attempt)
    /\ backoff' = 0
    /\ retried' = {}
    /\ calls' = 0
    /\ sleeps' = 0
    /\ last' = NoCall
    /\ pc' = "while"
    /\ UNCHANGED <<env, exit_status, result, paused, disk>>

\* line 95 with the list used up: on to the sitemap; the executor's locals
\* are gone and no invocation is the current one any more
ForEnd ==
    /\ pc = "for"
    /\ ~MoreTopics(i, topics)
    /\ attempt' = 0
    /\ calls' = 0
    /\ sleeps' = 0
    /\ last' = NoCall
    /\ pc' = "sitemap"
    /\ UNCHANGED <<env, i, backoff, retried, exit_status, result, paused, disk>>

\* lines 32-47: the request is posted and answered with a well-formed body;
\* return data["choices"][0]["message"]["content"].strip() reaches line 102
PostOk ==
    /\ pc = "while"
    /\ WhileCond(attempt, max_retries)
    /\ \E raw \in RawContents : html' = Strip(raw, WHITESPACE)
    /\ calls' = calls + 1
    /\ last' = [kind |-> "ok", status |-> 200]
    /\ result' = Append(result, "ok")
    /\ retried' = {}
    /\ pc' = ReturnTarget
    /\ UNCHANGED <<env, i, attempt, backoff, exit_status, sleeps, paused,
                   created_files, files, sitemap, persisted, written>>

\* lines 44-45, 48-60: r.raise_for_status() raises HTTPError
PostHTTPError ==
    /\ pc = "while"
    /\ WhileCond(attempt, max_retries)
    /\ \E status \in HTTP_ERROR_STATUSES :
          /\ last' = [kind |-> "http", status |-> status]
          /\ IF IsRetryable(status)
             THEN Retry("http")
             ELSE Caught("fatal") /\ NoRetry               \* raise
    /\ calls' = calls + 1
    /\ UNCHANGED <<env, i, exit_status, sleeps, paused, disk>>

\* lines 44, 61-67: requests.post raises a RequestException that is no
\* HTTPError (connection error, timeout)
PostNetworkError ==
    /\ pc = "while"
    /\ WhileCond(attempt, max_retries)
    /\ last' = [kind |-> "network", status |-> 0]
    /\ Retry("request")
    /\ calls' = calls + 1
    /\ UNCHANGED <<env, i, exit_status, sleeps, paused, disk>>

\* lines 46, 61-67: the status is a success and r.json() cannot parse the
\* body; what it raises depends on the installed requests
PostBadJson ==
    /\ pc = "while"
    /\ WhileCond(attempt, max_retries)
    /\ last' = [kind |-> "bad_json", status |-> 200]
    /\ IF json_error_is_request_exception
       THEN Retry("request")
       ELSE Caught("fatal") /\ NoRetry
    /\ calls' = calls + 1
    /\ UNCHANGED <<env, i, exit_status, sleeps, paused, disk>>

\* line 47: the body is JSON without a string at choices[0].message.content
\* (KeyError, IndexError, TypeError, AttributeError): no except clause of
\* call_openai_with_retries matches
PostBadShape ==
    /\ pc = "while"
    /\ WhileCond(attempt, max_retries)
    /\ last' = [kind |-> "bad_shape", status |-> 200]
    /\ Caught("fatal")
    /\ NoRetry
    /\ calls' = calls + 1
    /\ UNCHANGED <<env, i, exit_status, sleeps, paused, disk>>

\* lines 56-57, 66-67: time.sleep(backoff); continue
Backoff ==
    /\ pc = "backoff"
    /\ sleeps' = sleeps + 1
    /\ backoff' = 0
    /\ pc' = "while"
    /\ UNCHANGED <<env, i, attempt, retried, exit_status, calls, last, result, paused,
                   disk>>

\* lines 32, 68-69: the loop condition fails; raise RuntimeError
RetriesExhausted ==
    /\ pc = "while"
    /\ ~WhileCond(attempt, max_retries)
    /\ Caught("exhausted")
    /\ NoRetry
    /\ UNCHANGED <<env, i, exit_status, calls, sleeps, last, paused,
                   disk>>

\* lines 102-108: the artifact is written and recorded
WriteArtifact ==
    /\ pc = "write"
    /\ LET fname == FnameOf[topics[i]]
       IN /\ files' = WithFile(files, fname,
                               WriteFile(Content(files, fname), <<MARKER>> \o html))
          /\ created_files' = AppendCreated(created_files, fname)
          /\ written' = written \cup {fname}
    /\ persisted' = persisted \cup {i}
    /\ pc' = "pause"
    /\ UNCHANGED <<env, i, executor, html, sitemap, exit_status, calls, sleeps,
                   last, result, paused>>

\* line 110: time.sleep(2)
Pause ==
    /\ pc = "pause"
    /\ paused' = paused \cup {i}
    /\ pc' = "for"
    /\ UNCHANGED <<env, i, executor, exit_status, calls, sleeps, last, result,
                   disk>>

\* lines 113-120: sitemap.xml is built from created_files and written
WriteSitemap ==
    /\ pc = "sitemap"
    /\ sitemap' = Urls(created_files)
    /\ pc' = "done"
    /\ UNCHANGED <<env, i, executor, html, created_files, files, exit_status,
                   calls, sleeps, last, result, paused, persisted, written>>

Next ==
    \/ CheckKey
    \/ MakeDirs
    \/ ForNext
    \/ ForEnd
    \/ PostOk
    \/ PostHTTPError
    \/ PostNetworkError
    \/ PostBadJson
    \/ PostBadShape
    \/ Backoff
    \/ RetriesExhausted
    \/ WriteArtifact
    \/ Pause
    \/ WriteSitemap

Spec == Init /\ [][Next]_vars

\* The script is one sequential process and every statement of it returns
\* (requests.post has timeout=60, every sleep is finite): a run does not stop
\* while a statement is left to execute.
SpecFair == Spec /\ WF_vars(Next)

\* ------------------------------------------- the same script on a failing disk
\* line 72: os.makedirs raises OSError (no permission, a file named generated)
MakeDirsFails ==
    /\ pc = "makedirs"
    /\ pc' = "crash"
    /\ exit_status' = 1
    /\ UNCHANGED <<env, i, executor, calls, sleeps, last, result, paused, disk>>

\* lines 104-106: open(path, "w") raises OSError and leaves the directory as
\* it was, or the file is opened (created or truncated) and a write or the
\* closing flush raises OSError, leaving the part already flushed.  No except
\* clause encloses the with-block: the exception ends the process.
WriteArtifactFails ==
    /\ pc = "write"
    /\ LET fname == FnameOf[topics[i]]
       IN \/ UNCHANGED files
          \/ \E part \in { << >>, <<MARKER>> } :
                files' = WithFile(files, fname, part)
    /\ pc' = "crash"
    /\ exit_status' = 1
    /\ UNCHANGED <<env, i, executor, html, created_files, sitemap, calls, sleeps,
                   last, result, paused, persisted, written>>

\* lines 118-119: open("sitemap.xml", "w") or the write raises OSError
WriteSitemapFails ==
    /\ pc = "sitemap"
    /\ pc' = "crash"
    /\ exit_status' = 1
    /\ UNCHANGED <<env, i, executor, calls, sleeps, last, result, paused, disk>>

NextFS ==
    \/ Next
    \/ MakeDirsFails
    \/ WriteArtifactFails
    \/ WriteSitemapFails

SpecFS == Init /\ [][NextFS]_vars

\* ================================================================= claims
\* the task loop is over: the script is at the sitemap, past it, or crashed
\* while writing it (a crash inside the loop follows a successful call)
LoopLeft == pc \in {"sitemap", "done"} \/ (pc = "crash" /\ last = NoCall)

\* the invocation for the current topic has ended with outcome kind, and the
\* task loop has not been left since
Ended(kind) ==
    /\ i >= 1
    /\ Len(result) = i
    /\ result[i] = kind
    /\ ~LoopLeft

\* task j was given up: retries exhausted or a fatal error
Failed(j) == j \in DOMAIN result /\ result[j] \in {"exhausted", "fatal"}

\* task j's call returned content and the script is past its with-block
Succeeded(j) ==
    j \in DOMAIN result /\ result[j] = "ok" /\ ~(j = i /\ pc = "write")

\* the latest call failed with a status the tuple of line 52 does not hold
LastWasFatalStatus == last.kind = "http" /\ last.status \notin RETRYABLE

\* the latest call failed with a retryable status or a network failure
LastWasRetryable ==
    \/ last.kind = "http" /\ last.status \in RETRYABLE
    \/ last.kind = "network"

C2_Isolation ==
    \A k \in DOMAIN result :
        Failed(k) =>
            /\ pc \notin {"exit", "crash"}
            /\ (pc \in {"sitemap", "done"} => Len(result) = Len(topics))
            /\ \A j \in DOMAIN result \ {k} :
                  Succeeded(j) =>
                      /\ j \in persisted
                      /\ FnameOf[topics[j]] \in DOMAIN files
                      /\ FnameOf[topics[j]] \in Range(created_files)

C2_Witness ==
    /\ pc = "done"
    /\ Len(topics) = 3
    /\ result = <<"ok", "exhausted", "ok">>
    /\ persisted = {1, 3}
    /\ max_retries = 2

\* ----------------------------------------------------------------------- C3
\* file names of the <loc> entries of sitemap.xml other than the root entry
LocNames ==
    { SubSeq(u, Len(RootUrl) + 1, Len(u)) : u \in Range(sitemap) \ {RootUrl} }

\* C3: when sitemap.xml has been written, the file names of its entries
\* other than the root are exactly the names of the files written under
\* generated/ during the run.
C3_ManifestConsistency ==
    pc = "done" => LocNames = written

C3_Witness ==
    /\ pc = "done"
    /\ Cardinality(written) = 2
    /\ \E k \in DOMAIN result : Failed(k)
    /\ LocNames = written

C5_ArtifactOnlyOnSuccess ==
    /\ \A j \in DOMAIN result : (j \in persisted) <=> Succeeded(j)
    /\ persisted \subseteq DOMAIN result
    /\ Len(created_files) = Cardinality(persisted)
    /\ Range(created_files) = { FnameOf[topics[j]] : j \in persisted }
    /\ written = { FnameOf[topics[j]] : j \in persisted }
    /\ DOMAIN files = DOMAIN files0 \cup written
    /\ \A n \in DOMAIN files0 \ written : files[n] = files0[n]
    /\ (\E k \in DOMAIN result : Failed(k)) => pc \notin {"exit", "crash"}

C5_Witness ==
    /\ pc = "done"
    /\ result = <<"ok", "fatal", "ok">>
    /\ Len(created_files) = 2
    /\ Len(sitemap) = 3
    /\ persisted = {1, 3}
    /\ FnameOf[topics[2]] \notin DOMAIN files

\* ----------------------------------------------------------------------- C6
RECURSIVE SucceededNames(_)
\* file names of the succeeded tasks among the first n, in task order
SucceededNames(n) ==
    IF n = 0 THEN << >>
    ELSE IF Succeeded(n) THEN Append(SucceededNames(n - 1), FnameOf[topics[n]])
    ELSE SucceededNames(n - 1)

\* C6: created_files holds the file names of the succeeded tasks in task
\* order, with nothing standing for a failed task; sitemap.xml lists the
\* root first, also when no task succeeded, and then one entry per recorded
\* name in the same order.
C6_OrderPreservation ==
    /\ created_files = SucceededNames(Len(result))
    /\ pc = "done" =>
          /\ Len(sitemap) = Len(created_files) + 1
          /\ sitemap[1] = RootUrl
          /\ \A k \in DOMAIN created_files : sitemap[k + 1] = Url(created_files[k])

C6_Witness ==
    /\ pc = "done"
    /\ result = <<"ok", "exhausted", "ok">>
    /\ created_files = <<FnameOf[topics[1]], FnameOf[topics[3]]>>
    /\ FnameOf[topics[1]] # FnameOf[topics[3]]
    /\ sitemap = <<RootUrl, Url(FnameOf[topics[1]]), Url(FnameOf[topics[3]])>>

\* ----------------------------------------------------------------------- C7
\* C7 as stated: when a task other than the first has issued a remote call,
\* the task before it was followed by the inter-task pause, whether that
\* task succeeded or was given up.
C7_InterTaskPause ==
    (i > 1 /\ calls > 0) => (i - 1) \in paused

\* ----------------------------------------------------------------------- C8
\* C8 as stated: a task whose generation succeeded never leaves the run
\* aborted; a failure to write its artifact stays inside the task.
C8_WriteFailureIsolated ==
    (Ended("ok") /\ i \notin persisted) => pc # "crash"

\* ----------------------------------------------------------------------- C9
\* C9: without the credential the process never leaves the startup check;
\* it ends there with status 1, having issued no remote call, taken no task,
\* and written neither an artifact nor sitemap.xml.
C9_ConfigurationError ==
    ~OPENAI_KEY =>
        /\ pc \in {"start", "exit"}
        /\ (pc = "exit" => exit_status = 1)
        /\ calls = 0
        /\ i = 0
        /\ result = << >>
        /\ files = files0
        /\ written = {}
        /\ created_files = << >>
        /\ sitemap = << >>

C9_Witness ==
    /\ ~OPENAI_KEY
    /\ pc = "exit"
    /\ exit_status = 1
    /\ Len(topics) = 3

\* ---------------------------------------------------------------------- C10
\* C10: right after a task's artifact was written, whatever the file held
\* before, its content is the marker line followed by the content just
\* generated, and generated/ holds the files it held at the start plus one
\* file per derived name.
C10_IdempotentRewrite ==
    pc = "pause" =>
        /\ files[FnameOf[topics[i]]] = <<MARKER>> \o html
        /\ DOMAIN files = DOMAIN files0 \cup { FnameOf[topics[j]] : j \in persisted }

\* the file existed with another content, from an earlier run and from an
\* earlier task of this run, when it was written again
C10_Witness ==
    /\ pc = "pause"
    /\ FnameOf[topics[i]] \in DOMAIN files0
    /\ \E j \in persisted \ {i} : FnameOf[topics[j]] = FnameOf[topics[i]]
    /\ html = <<"B">>
    /\ files[FnameOf[topics[i]]] = <<MARKER, "B">>

\* ---------------------------------------------------------------------- C11
\* delay(k) < delay(k + 1) for k up to the default budget and every pair of
\* jitter values
DelayGrows ==
    \A k \in 1..DEFAULT_MAX_RETRIES :
        \A j1, j2 \in Jitter : Delay(k, j1) < Delay(k + 1, j2)

\* C11: the delay grows from one retry to the next, whatever the two jitter
\* values: delay(k) < delay(k + 1) for every counter value k from 1 up to the
\* default budget, and the delay about to be slept at counter value k + 1 is
\* longer than every delay the formula gives for k.
C11_BackoffMonotonic ==
    /\ DelayGrows
    /\ (pc = "backoff" /\ attempt >= 2) =>
          \A j \in Jitter : Delay(attempt - 1, j) < backoff

\* the second sleep of an invocation is pending with the smallest jitter
C11_Witness ==
    /\ pc = "backoff"
    /\ attempt = 2
    /\ sleeps = 1
    /\ backoff = Delay(2, 0)

\* ---------------------------------------------------------------------- C12
\* the latest call returned a success status with a body that is not JSON or
\* that has no content at choices[0].message.content
LastWasMalformed == last.kind \in {"bad_json", "bad_shape"}

\* C12 as stated: after a call answered with a malformed response the task's
\* generation is over as a fatal failure: no retry is pending, no further
\* call was issued and no backoff sleep followed that call.
C12_MalformedIsFatal ==
    LastWasMalformed =>
        /\ Ended("fatal")
        /\ pc \notin {"while", "backoff", "write", "pause"}
        /\ calls = attempt + 1
        /\ sleeps = attempt

\* ---------------------------------------------------------------------- C13
\* C13 as stated: an invocation that has ended after at least one remote
\* call has slept once per retry it issued, that is once per call after the
\* first; no sleep follows its last call.
C13_NoWaitBeforeGivingUp ==
    (\E kind \in {"ok", "fatal", "exhausted"} : Ended(kind) /\ calls >= 1)
        => sleeps = calls - 1

\* ---------------------------------------------------------------------- C14
\* delay(k) lies in [2^k, 2^k + 1) seconds for k up to the default budget:
\* 2, 4, 8, 16, 32 seconds plus the jitter
DelaySchedule ==
    /\ \A k \in 1..DEFAULT_MAX_RETRIES : \A j \in Jitter :
          /\ Delay(k, j) >= (2 ^ k) * Ticks
          /\ Delay(k, j) < (2 ^ k + 1) * Ticks
    /\ [k \in 1..DEFAULT_MAX_RETRIES |-> Delay(k, 0)]
          = <<2 * Ticks, 4 * Ticks, 8 * Ticks, 16 * Ticks, 32 * Ticks>>

\* C14: the delay for counter value k lies in [2^k, 2^k + 1) seconds, which
\* starts at 2, 4, 8, 16, 32 seconds for k = 1..5; and the sleep pending
\* after the k-th failed call of an invocation was computed by one of the two
\* except clauses from the counter already incremented to k.
C14_BackoffSchedule ==
    /\ DelaySchedule
    /\ pc = "backoff" =>
          /\ attempt = calls
          /\ sleeps = calls - 1
          /\ backoff >= (2 ^ calls) * Ticks
          /\ backoff < (2 ^ calls + 1) * Ticks
          /\ retried # {}
          /\ retried \subseteq {"http", "request"}

\* the second sleep of an invocation, after a retryable status and a network
\* failure, with the largest jitter
C14_Witness ==
    /\ pc = "backoff"
    /\ calls = 2
    /\ retried = {"http", "request"}
    /\ last.kind = "network"
    /\ backoff = 4 * Ticks + (Ticks - 1)

\* ---------------------------------------------------------------------- C15
\* C15: after a successful remote call the invocation is over with the
\* content returned: the script is in the task loop and not in the retry
\* loop, that call was the last of the invocation, and no sleep followed it
\* (every sleep of the invocation belongs to a failure before it).
C15_SuccessStops ==
    last.kind = "ok" =>
        /\ Ended("ok")
        /\ pc \notin {"while", "backoff"}
        /\ calls = attempt + 1
        /\ sleeps = attempt

\* a success after as many retryable failures as the budget allows
C15_Witness ==
    /\ last.kind = "ok"
    /\ max_retries = MaxRetries
    /\ attempt = MaxRetries - 1
    /\ attempt >= 1
    /\ sleeps = attempt
    /\ pc = "for"

\* ---------------------------------------------------------------------- C16
\* C16: in every task's invocation the counter counts the failed calls of
\* that invocation alone, starting from 0, and a task that uses up its budget
\* has issued max_retries calls whatever happened in the tasks before it.
C16_PerTaskBudget ==
    /\ pc \in {"while", "backoff"} => attempt = calls
    /\ (pc = "while" /\ calls = 0) => attempt = 0
    /\ \A k \in DOMAIN result :
          (k = i /\ Ended("exhausted")) => calls = max_retries

\* the task after one that used up its budget uses up the same budget
C16_Witness ==
    /\ i = 2
    /\ result = <<"exhausted", "exhausted">>
    /\ pc = "for"
    /\ max_retries = MaxRetries
    /\ calls = MaxRetries
    /\ sleeps = MaxRetries

\* ---------------------------------------------------------------------- C17
\* C17: the loop takes the topics one by one; every topic taken before the
\* current one has exactly one outcome, the current one has none while its
\* invocation runs, and while it runs every earlier topic whose call
\* succeeded has its artifact written and its name recorded, once.  When the
\* sitemap is written every topic of the list has been taken and has its
\* one outcome.
C17_SequentialOnce ==
    /\ i <= Len(topics)
    /\ Len(result) \in {i - 1, i}
    /\ Len(created_files) = Cardinality(persisted)
    /\ pc \in {"while", "backoff"} =>
          /\ Len(result) = i - 1
          /\ \A j \in 1..(i - 1) :
                result[j] = "ok" =>
                    /\ j \in persisted
                    /\ FnameOf[topics[j]] \in DOMAIN files
                    /\ FnameOf[topics[j]] \in Range(created_files)
    /\ pc = "done" =>
          /\ i = Len(topics)
          /\ Len(result) = Len(topics)

\* the third topic is being retried after a success and a failure
C17_Witness ==
    /\ pc = "backoff"
    /\ i = 3
    /\ result = <<"ok", "exhausted">>
    /\ persisted = {1}
    /\ created_files = <<FnameOf[topics[1]]>>

\* ---------------------------------------------------------------------- C18
\* every topic of the list has its outcome and sitemap.xml is written
RunCompleted ==
    /\ pc = "done"
    /\ Len(result) = Len(topics)
    /\ sitemap # << >>

\* C18: a run that starts with the credential present, whatever the task
\* list and the answers of the remote service, eventually has an outcome for
\* every topic and has written sitemap.xml.
C18_Termination == OPENAI_KEY => <>RunCompleted

\* a run completed after every topic of a full list used up its retries
C18_Witness ==
    /\ RunCompleted
    /\ Len(topics) = MaxTasks
    /\ max_retries = MaxRetries
    /\ \A j \in DOMAIN result : result[j] = "exhausted"

\* ---------------------------------------------------------------------- C19
\* no topic stands twice in the task list
DistinctTopics == \A a, b \in DOMAIN topics : a # b => topics[a] # topics[b]

\* C19 as stated: when sitemap.xml has been written for a list of distinct
\* topics, its entries after the root entry are pairwise distinct and there
\* are as many of them as files written under generated/ during the run.
C19_OneEntryPerArtifact ==
    (pc = "done" /\ DistinctTopics) =>
        /\ \A a, b \in 2..Len(sitemap) : a # b => sitemap[a] # sitemap[b]
        /\ Len(sitemap) - 1 = Cardinality(written)

\* ---------------------------------------------------------------------- C20
\* C20: whatever the mix of retryable statuses and network failures, the
\* counter never exceeds max_retries and an invocation never issues more
\* than max_retries remote calls; while the invocation is in its retry loop
\* the counter is the number of its failed calls of either kind.
C20_SharedCounter ==
    /\ attempt <= max_retries
    /\ calls <= max_retries
    /\ pc = "while" => attempt = sleeps
    /\ pc = "backoff" => attempt = sleeps + 1

\* the budget used up by one failure of each kind
C20_Witness ==
    /\ pc = "backoff"
    /\ retried = {"http", "request"}
    /\ last.kind \in {"http", "network"}
    /\ max_retries = 2
    /\ attempt = 2
    /\ calls = 2

====
